---- MODULE Spec2Model ----
(***************************************************************************)
(* The travel-agent chat loop of agents_with_langchain.ipynb: the input    *)
(* loop, the ReAct graph built by create_react_agent (agent node, tools    *)
(* node, MemorySaver checkpointer on thread "123") and the text helper     *)
(* extract_after_thinking.  Text is a sequence of one-character strings.   *)
(***************************************************************************)
EXTENDS Integers, Sequences, FiniteSets, TLC

VARIABLES
    pc,          \* where the cell's control is: "idle" (at input()), "agent", "tools", "closed"
    history,     \* the messages channel MemorySaver keeps for thread_id "123"
    user_input,  \* the last value input() returned
    steps,       \* graph supersteps run by the current astream call
    turns,       \* astream calls started so far
    done,        \* tools node: indices of the batch's calls that have run
    execLog,     \* tools node: the batch's invocations [k, id, name, args], in the order made
    sent,        \* the message list handed to the model by the last model call
    modelCalls,  \* number of model calls made so far
    appended,    \* per turn, the number of messages added to the thread
    printed,     \* the last "Assistant: ..." text printed ([kind, text])
    result,      \* how the latest turn ended: "none" (running), "answered",
                 \* "need_more_steps", "model_error", "key_error", "recursion_error"
    allTools,    \* every model call of the current turn asked for a tool
    text,        \* extractor harness: the raw text
    out1,        \* extractor harness: extract_after_thinking(text)
    out2,        \* extractor harness: extract_after_thinking(out1)
    phase        \* extractor harness: "off", "input", "once", "twice"

vars == <<pc, history, user_input, steps, turns, done, execLog, sent,
          modelCalls, appended, printed, result, allTools, text, out1, out2, phase>>

loopVars == <<pc, history, user_input, steps, turns, done, execLog, sent,
              modelCalls, appended, printed, result, allTools>>

harnessVars == <<text, out1, out2, phase>>

(***************************************************************************)
(* Bounds of the model.                                                    *)
(***************************************************************************)
MaxTurns == 2

MaxChunks == 3

RecursionLimit == 3

(***************************************************************************)
(* Text helpers.                                                           *)
(***************************************************************************)
Closer == <<"<", "/", "t", "h", "i", "n", "k", "i", "n", "g", ">">>

Opener == <<"<", "t", "h", "i", "n", "k", "i", "n", "g", ">">>

Whitespace == {" ", "\n", "\t"}

MatchesAt(s, pat, i) ==
    /\ i >= 1
    /\ i + Len(pat) - 1 <= Len(s)
    /\ SubSeq(s, i, i + Len(pat) - 1) = pat

Contains(s, pat) == \E i \in 1..Len(s) : MatchesAt(s, pat, i)

SetMin(S) == CHOOSE x \in S : \A y \in S : x <= y

\* re.search with a literal prefix: the leftmost position where pat matches, 0 for None
re_search(pat, s) ==
    LET hits == {i \in 1..Len(s) : MatchesAt(s, pat, i)}
    IN  IF hits = {} THEN 0 ELSE SetMin(hits)

RECURSIVE lstrip(_)
lstrip(s) ==
    IF s # <<>> /\ Head(s) \in Whitespace THEN lstrip(Tail(s)) ELSE s

RECURSIVE rstrip(_)
rstrip(s) ==
    IF s # <<>> /\ s[Len(s)] \in Whitespace THEN rstrip(SubSeq(s, 1, Len(s) - 1)) ELSE s

strip(s) == rstrip(lstrip(s))

\* a plausible slip: match.group(1) returned without .strip()
extract_no_strip(s) ==
    LET m == re_search(Closer, s)
    IN  IF m # 0 THEN SubSeq(s, m + Len(Closer), Len(s)) ELSE s

\* pattern r'</thinking>(.*)' with re.DOTALL: group(1) is all that follows the
\* leftmost closing tag
extract_after_thinking(s) ==
    LET m == re_search(Closer, s)
    IN  IF m # 0 THEN strip(SubSeq(s, m + Len(Closer), Len(s))) ELSE s

(***************************************************************************)
(* Extractor harness: raw texts built from a few chunks, whole tags, tag   *)
(* fragments, whitespace and a letter.                                     *)
(***************************************************************************)
Chunks ==
    { Closer, Opener, <<" ">>, <<"a">>, <<"<">>,
      <<"/", "t", "h", "i", "n", "k", "i", "n", "g", ">">> }

RECURSIVE Flatten(_)
Flatten(cs) == IF cs = <<>> THEN <<>> ELSE Head(cs) \o Flatten(Tail(cs))

Texts ==
    { Flatten(cs) : cs \in UNION { [1..n -> Chunks] : n \in 0..MaxChunks } }

(***************************************************************************)
(* The input loop's exit test: user_input.lower() in ["quit", "exit", "q"] *)
(***************************************************************************)
LowerChar(c) ==
    CASE c = "Q" -> "q"
      [] c = "U" -> "u"
      [] c = "I" -> "i"
      [] c = "T" -> "t"
      [] c = "E" -> "e"
      [] c = "X" -> "x"
      [] OTHER   -> c

lower(s) == [i \in 1..Len(s) |-> LowerChar(s[i])]

ExitWords == { <<"q", "u", "i", "t">>, <<"e", "x", "i", "t">>, <<"q">> }

\* a plausible slip: the comparison made without .lower()
IsExitCaseSensitive(s) == s \in ExitWords

IsExit(s) == lower(s) \in ExitWords

\* what input() may return in this model
UserInputs ==
    { <<>>, <<"h", "i">>,
      <<"q">>, <<"Q">>, <<"Q", "u", "i", "t">>, <<"E", "X", "I", "T">> }

(***************************************************************************)
(* Messages.  content is a list of blocks; a plain string content is one   *)
(* text block.                                                             *)
(***************************************************************************)
TextBlock(s) == [type |-> "text", text |-> s]

ToolUseBlock == [type |-> "tool_use", text |-> <<>>]

NoId == <<>>

HumanMessage(s) ==
    [role |-> "user", content |-> <<TextBlock(s)>>, tool_calls |-> <<>>,
     stop |-> "none", tool_call_id |-> NoId]

AIMessage(blocks, calls, stopReason) ==
    [role |-> "assistant", content |-> blocks, tool_calls |-> calls,
     stop |-> stopReason, tool_call_id |-> NoId]

ToolMessage(s, id) ==
    [role |-> "tool", content |-> <<TextBlock(s)>>, tool_calls |-> <<>>,
     stop |-> "none", tool_call_id |-> id]

(***************************************************************************)
(* The tools.                                                              *)
(***************************************************************************)
CostPerDay == 350

Digit(d) == <<"0", "1", "2", "3", "4", "5", "6", "7", "8", "9">>[d + 1]

RECURSIVE str(_)
str(n) == IF n < 10 THEN <<Digit(n)>> ELSE str(n \div 10) \o <<Digit(n % 10)>>

calculate_total_cost(num_days) == CostPerDay * num_days

Confirmed == <<"C", "o", "n", "f", "i", "r", "m", "e", "d">>

book_trip(start_date, end_date, destination_city) == Confirmed

ErrorText == <<"E", "r", "r", "o", "r">>

BookTripInput == {"start_date", "end_date", "destination_city"}

\* tool.invoke on one requested call: the arguments are validated against the
\* tool's schema, then the function runs; [ok, text] is the outcome
run_tool(call) ==
    IF call.name = "calculate_total_cost"
    THEN IF DOMAIN call.args = {"num_days"}
         THEN [ok |-> TRUE, text |-> str(calculate_total_cost(call.args.num_days))]
         ELSE [ok |-> FALSE, text |-> ErrorText]
    ELSE IF call.name = "book_trip"
    THEN IF DOMAIN call.args = BookTripInput
         THEN [ok |-> TRUE,
               text |-> book_trip(call.args.start_date, call.args.end_date,
                                  call.args.destination_city)]
         ELSE [ok |-> FALSE, text |-> ErrorText]
    ELSE [ok |-> FALSE, text |-> ErrorText]

\* the requests the model may make
CostCall == [name |-> "calculate_total_cost", args |-> [num_days |-> 8]]

BadCall == [name |-> "calculate_total_cost", args |-> [days |-> 8]]

BookCall ==
    [name |-> "book_trip",
     args |-> [start_date |-> "01/02/2025", end_date |-> "01/10/2025",
               destination_city |-> "Paris"]]

Batches == { <<CostCall, BookCall>>, <<BadCall>> }

\* the model's requests as they stand in the assistant message at position p
WithIds(batch, p) ==
    [k \in 1..Len(batch) |->
        [id |-> <<p, k>>, name |-> batch[k].name, args |-> batch[k].args]]

\* the texts the model may return
AnswerTexts ==
    { <<"t">> \o Closer \o <<" ", "a">>,
      Closer \o <<"a">> \o Closer,
      Opener \o <<"a">> }

StoppedTexts == { <<"t">> }

ToolTexts == { <<"t">> \o Closer }

SorryText == <<"S", "o", "r", "r", "y">>

(***************************************************************************)
(* MemorySaver and the messages channel.                                   *)
(***************************************************************************)
\* a plausible slip: create_react_agent built without checkpointer=memory, so
\* every astream call starts from an empty thread
restore_fresh(h) == <<>>

\* the thread's saved messages, as astream loads them for thread_id "123"
restore(h) == h

\* the messages channel's reducer: new messages are appended
add_messages(old, new) == old \o new

Sum(f) == LET RECURSIVE S(_)
              S(i) == IF i = 0 THEN 0 ELSE f[i] + S(i - 1)
          IN  S(Len(f))

Bump(counts, n) == [counts EXCEPT ![Len(counts)] = @ + n]

NoPrint == [kind |-> "none", text |-> <<>>]

(***************************************************************************)
(* The graph's step budget (recursion_limit of the run's config).          *)
(***************************************************************************)
\* a plausible slip: the budget test off by one
OutOfStepsLate(s) == s >= RecursionLimit + 1

OutOfSteps(s) == s >= RecursionLimit

\* the agent node is on one of the budget's last steps
LastSteps(s) == s + 2 >= RecursionLimit

\* a plausible slip: the router sends every response to END
should_continue_never(msg) == FALSE

\* the router after the agent node: on to the tools node iff the response
\* carries tool calls
should_continue(msg) == msg.tool_calls # <<>>

\* a plausible slip: the except clause ends with continue
after_exception_continue == "idle"

\* except Exception: the exception is printed, then break
after_exception == "closed"

(***************************************************************************)
(* Initial state: the cell has built memory and agent_executor and waits   *)
(* at input().                                                             *)
(***************************************************************************)
LoopInit ==
    /\ pc = "idle"
    /\ history = <<>>
    /\ user_input = <<>>
    /\ steps = 0
    /\ turns = 0
    /\ done = {}
    /\ execLog = <<>>
    /\ sent = <<>>
    /\ modelCalls = 0
    /\ appended = <<>>
    /\ printed = NoPrint
    /\ result = "none"
    /\ allTools = FALSE

Init ==
    /\ LoopInit
    /\ text = <<>>
    /\ out1 = <<>>
    /\ out2 = <<>>
    /\ phase = "off"

(***************************************************************************)
(* The input loop.                                                         *)
(***************************************************************************)
\* input() returns an exit word: "Goodbye!" and break
Exit(inp) ==
    /\ pc = "idle"
    /\ IsExit(inp)
    /\ user_input' = inp
    /\ pc' = "closed"
    /\ UNCHANGED <<history, steps, turns, done, execLog, sent, modelCalls,
                   appended, printed, result, allTools>>
    /\ UNCHANGED harnessVars

\* a plausible slip: astream called with the user's message alone
turn_input_no_prefill(inp) == << HumanMessage(inp) >>

\* the messages astream is called with
turn_input(inp) ==
    << HumanMessage(inp), AIMessage(<<TextBlock(Opener)>>, <<>>, "none") >>

\* a plausible slip: input read and astream started from a task of its own,
\* while an earlier astream call is still running
TurnStartAnytime(inp) ==
    /\ pc \in {"idle", "agent", "tools"}
    /\ turns < MaxTurns
    /\ ~IsExit(inp)
    /\ user_input' = inp
    /\ history' = add_messages(restore(history), turn_input(inp))
    /\ appended' = Append(appended, Len(turn_input(inp)))
    /\ steps' = 0
    /\ turns' = turns + 1
    /\ done' = {}
    /\ execLog' = <<>>
    /\ printed' = NoPrint
    /\ result' = "none"
    /\ allTools' = TRUE
    /\ pc' = "agent"
    /\ UNCHANGED <<sent, modelCalls>>
    /\ UNCHANGED harnessVars

\* input() returns anything else: astream is called with the user's message
\* and the assistant message "<thinking>"
TurnStart(inp) ==
    /\ pc = "idle"
    /\ turns < MaxTurns
    /\ ~IsExit(inp)
    /\ user_input' = inp
    /\ history' = add_messages(restore(history), turn_input(inp))
    /\ appended' = Append(appended, Len(turn_input(inp)))
    /\ steps' = 0
    /\ turns' = turns + 1
    /\ done' = {}
    /\ execLog' = <<>>
    /\ printed' = NoPrint
    /\ result' = "none"
    /\ allTools' = TRUE
    /\ pc' = "agent"
    /\ UNCHANGED <<sent, modelCalls>>
    /\ UNCHANGED harnessVars

(***************************************************************************)
(* The agent node: one model call on the thread's messages, the response   *)
(* added to the thread, the event printed by the loop, then the router.    *)
(***************************************************************************)
\* the first block's text of a tool_use response: content[0]['text']
FirstText(msg) == msg.content[1].text

\* the agent node returned msg and the loop has handled its event; shown is what
\* the loop printed after "Assistant: "
AgentReturn(msg, shown) ==
    /\ sent' = history
    /\ modelCalls' = modelCalls + 1
    /\ history' = add_messages(history, <<msg>>)
    /\ appended' = Bump(appended, 1)
    /\ steps' = steps + 1
    /\ printed' = shown
    /\ done' = {}
    /\ execLog' = <<>>
    /\ IF should_continue(msg)
       THEN pc' = "tools" /\ result' = result
       ELSE pc' = "idle" /\ result' = "answered"
    /\ UNCHANGED <<user_input, turns>>
    /\ UNCHANGED harnessVars

\* stopReason "end_turn": the extracted text is printed
AgentAnswer(t) ==
    /\ pc = "agent"
    /\ ~OutOfSteps(steps)
    /\ LET msg == AIMessage(<<TextBlock(t)>>, <<>>, "end_turn")
       IN  AgentReturn(msg, [kind |-> "assistant",
                             text |-> extract_after_thinking(FirstText(msg))])
    /\ allTools' = FALSE

\* stopReason "stop_sequence": neither branch of the loop prints it
AgentStopped(t) ==
    /\ pc = "agent"
    /\ ~OutOfSteps(steps)
    /\ AgentReturn(AIMessage(<<TextBlock(t)>>, <<>>, "stop_sequence"), printed)
    /\ allTools' = FALSE

\* stopReason "tool_use" with a text block first: the extracted text and the
\* tool calls are printed
AgentToolUse(t, batch) ==
    /\ pc = "agent"
    /\ ~OutOfSteps(steps)
    /\ LET msg == AIMessage(<<TextBlock(t)>> \o [k \in 1..Len(batch) |-> ToolUseBlock],
                            WithIds(batch, Len(history) + 1), "tool_use")
       IN  AgentReturn(msg, [kind |-> "assistant",
                             text |-> extract_after_thinking(FirstText(msg))])
    /\ UNCHANGED allTools

\* stopReason "tool_use" with no text block: content[0]['text'] raises, the
\* except clause prints the exception and breaks
AgentToolUseNoText(batch) ==
    /\ pc = "agent"
    /\ ~OutOfSteps(steps)
    /\ sent' = history
    /\ modelCalls' = modelCalls + 1
    /\ history' = add_messages(history,
                     << AIMessage([k \in 1..Len(batch) |-> ToolUseBlock],
                                  WithIds(batch, Len(history) + 1), "tool_use") >>)
    /\ appended' = Bump(appended, 1)
    /\ steps' = steps + 1
    /\ pc' = after_exception
    /\ result' = "key_error"
    /\ UNCHANGED <<user_input, turns, done, execLog, printed, allTools>>
    /\ UNCHANGED harnessVars

\* on the budget's last steps the agent node answers a tool request itself
\* ("Sorry, need more steps to process this request."): no stopReason, so the
\* loop prints it under "Tool Messages", and the graph ends
AgentSorry ==
    /\ pc = "agent"
    /\ ~OutOfSteps(steps)
    /\ LastSteps(steps)
    /\ sent' = history
    /\ modelCalls' = modelCalls + 1
    /\ history' = add_messages(history,
                     << AIMessage(<<TextBlock(SorryText)>>, <<>>, "none") >>)
    /\ appended' = Bump(appended, 1)
    /\ steps' = steps + 1
    /\ pc' = "idle"
    /\ result' = "need_more_steps"
    /\ UNCHANGED <<user_input, turns, done, execLog, printed, allTools>>
    /\ UNCHANGED harnessVars

\* the model call raises: the except clause prints the exception and breaks
AgentFail ==
    /\ pc = "agent"
    /\ ~OutOfSteps(steps)
    /\ sent' = history
    /\ modelCalls' = modelCalls + 1
    /\ pc' = after_exception
    /\ result' = "model_error"
    /\ UNCHANGED <<history, user_input, steps, turns, done, execLog, appended,
                   printed, allTools>>
    /\ UNCHANGED harnessVars

\* the step budget is used up with a node still to run: the graph raises its
\* recursion error, the except clause prints it and breaks
RaiseLimit ==
    /\ pc \in {"agent", "tools"}
    /\ OutOfSteps(steps)
    /\ pc' = after_exception
    /\ result' = "recursion_error"
    /\ UNCHANGED <<history, user_input, steps, turns, done, execLog, sent,
                   modelCalls, appended, printed, allTools>>
    /\ UNCHANGED harnessVars

(***************************************************************************)
(* The tools node: the last assistant message's calls are run side by      *)
(* side; their tool messages are added in the order of the requests.       *)
(***************************************************************************)
Batch == history[Len(history)].tool_calls

\* one requested call runs; which of the batch runs next is not determined
ToolRun(k) ==
    /\ pc = "tools"
    /\ ~OutOfSteps(steps)
    /\ k \in 1..Len(Batch)
    /\ k \notin done
    /\ done' = done \cup {k}
    /\ execLog' = Append(execLog, [k |-> k, id |-> Batch[k].id,
                                   name |-> Batch[k].name, args |-> Batch[k].args])
    /\ UNCHANGED <<pc, history, user_input, steps, turns, sent, modelCalls,
                   appended, printed, result, allTools>>
    /\ UNCHANGED harnessVars

\* a plausible slip: the tool messages collected in completion order
tool_outputs_as_completed(batch, log) ==
    [i \in 1..Len(log) |-> ToolMessage(run_tool(batch[log[i].k]).text, batch[log[i].k].id)]

\* a plausible slip: a call that raised leaves no tool message
tool_outputs_skip_failed(batch, log) ==
    LET all == [k \in 1..Len(batch) |->
                   [ok |-> run_tool(batch[k]).ok,
                    msg |-> ToolMessage(run_tool(batch[k]).text, batch[k].id)]]
        kept == SelectSeq(all, LAMBDA r : r.ok)
    IN  [i \in 1..Len(kept) |-> kept[i].msg]

\* the node's output: one tool message per call, in request order; a call that
\* raised yields its error text
tool_outputs(batch, log) ==
    [k \in 1..Len(batch) |-> ToolMessage(run_tool(batch[k]).text, batch[k].id)]

\* all calls have run: the tool messages are added and the agent node is next
ToolsAppend ==
    /\ pc = "tools"
    /\ ~OutOfSteps(steps)
    /\ done = 1..Len(Batch)
    /\ history' = add_messages(history, tool_outputs(Batch, execLog))
    /\ appended' = Bump(appended, Len(Batch))
    /\ steps' = steps + 1
    /\ pc' = "agent"
    /\ UNCHANGED <<user_input, turns, done, execLog, sent, modelCalls, printed,
                   result, allTools>>
    /\ UNCHANGED harnessVars

(***************************************************************************)
(* Extractor harness.                                                      *)
(***************************************************************************)
HarnessInit ==
    /\ LoopInit
    /\ text \in Texts
    /\ out1 = <<>>
    /\ out2 = <<>>
    /\ phase = "input"

ExtractOnce ==
    /\ phase = "input"
    /\ out1' = extract_after_thinking(text)
    /\ phase' = "once"
    /\ UNCHANGED <<text, out2>>
    /\ UNCHANGED loopVars

ExtractTwice ==
    /\ phase = "once"
    /\ out2' = extract_after_thinking(out1)
    /\ phase' = "twice"
    /\ UNCHANGED <<text, out1>>
    /\ UNCHANGED loopVars

(***************************************************************************)
(* Specifications.                                                         *)
(***************************************************************************)
TurnStep ==
    \/ \E t \in AnswerTexts : AgentAnswer(t)
    \/ \E t \in StoppedTexts : AgentStopped(t)
    \/ \E t \in ToolTexts, b \in Batches : AgentToolUse(t, b)
    \/ \E b \in Batches : AgentToolUseNoText(b)
    \/ AgentSorry
    \/ AgentFail
    \/ RaiseLimit
    \/ \E k \in 1..2 : ToolRun(k)
    \/ ToolsAppend

Next ==
    \/ \E inp \in UserInputs : Exit(inp)
    \/ \E inp \in UserInputs : TurnStart(inp)
    \/ TurnStep

Spec == Init /\ [][Next]_vars

\* the cell is one sequential flow: inside a turn, the model call and the tool
\* calls return and the next step is taken
FairSpec == Spec /\ WF_vars(TurnStep)

HarnessNext == ExtractOnce \/ ExtractTwice

HarnessSpec == HarnessInit /\ [][HarnessNext]_vars

(***************************************************************************)
(* Properties.                                                             *)
(***************************************************************************)
Requests(h) == {j \in 1..Len(h) : h[j].role = "assistant" /\ h[j].tool_calls # <<>>}

\* C1: every tool message in the thread answers a call of the nearest earlier
\* assistant message, with only tool messages in between (so it comes after its
\* request and before the next assistant message); the messages handed to a
\* model call never hold a tool request without all its results, i.e. no model
\* call falls between a request and its result; and every tool invocation
\* carries the name and arguments of the request it answers.
C1_ToolResultsFollowRequest ==
    /\ \A i \in 1..Len(history) :
          history[i].role = "tool" =>
             \E j \in Requests(history) :
                /\ j < i
                /\ i - j <= Len(history[j].tool_calls)
                /\ history[i].tool_call_id = history[j].tool_calls[i - j].id
                /\ \A m \in (j + 1)..(i - 1) : history[m].role = "tool"
    /\ \A j \in Requests(sent) :
          \A k \in 1..Len(sent[j].tool_calls) :
             /\ j + k <= Len(sent)
             /\ sent[j + k].role = "tool"
             /\ sent[j + k].tool_call_id = sent[j].tool_calls[k].id
    /\ \A e \in 1..Len(execLog) :
          \E j \in Requests(history) :
             \E k \in 1..Len(history[j].tool_calls) :
                /\ history[j].tool_calls[k].id = execLog[e].id
                /\ history[j].tool_calls[k].name = execLog[e].name
                /\ history[j].tool_calls[k].args = execLog[e].args

\* a model call has been made on a thread that holds a request with its results
C1_Witness ==
    /\ result = "answered"
    /\ \E i \in 1..Len(sent) : sent[i].role = "tool"

\* C3: the thread only grows, earlier messages staying as they were, and every
\* model call is handed the whole thread: all the messages added in the earlier
\* turns and in this turn so far, in the order added.
C3_FullHistoryToModel ==
    [][ /\ Len(history') >= Len(history)
        /\ SubSeq(history', 1, Len(history)) = history
        /\ Len(history') = Sum(appended')
        /\ (modelCalls' # modelCalls =>
               /\ sent' = history
               /\ Len(sent') = Sum(appended)) ]_vars

\* the second turn's model call got the first turn's messages and its own
C3_Witness ==
    /\ turns = 2
    /\ Len(appended) = 2
    /\ modelCalls >= 2
    /\ Len(sent) >= appended[1] + 2

\* C2: as long as no turn has requested a tool, the text printed after
\* "Assistant: " holds neither the opening nor the closing tag of the thinking
\* block, whatever text the model returned.
C2_NoMarkersShown ==
    (printed.kind = "assistant" /\ Requests(history) = {}) =>
        /\ ~Contains(printed.text, Closer)
        /\ ~Contains(printed.text, Opener)

InTurn == pc \in {"agent", "tools"}

C5_BackToIdleAfterFailure ==
    result = "model_error" => pc = "idle"

\* C5, amended: a failed model call leaves the thread's messages as they were
\* and ends the loop: control leaves the while loop and no step follows.
C5_FailureKeepsHistoryAndStops ==
    [][ /\ (result' = "model_error" /\ result # "model_error") =>
              (history' = history /\ pc' = "closed" /\ turns' = turns)
        /\ ~(pc = "closed" /\ result = "model_error") ]_vars

\* a model call failed in a turn that had already added messages of its own
C5_Witness ==
    /\ result = "model_error"
    /\ pc = "closed"
    /\ Len(history) > 2
    /\ sent = history

UpperChar(c) ==
    CASE c = "q" -> "Q"
      [] c = "u" -> "U"
      [] c = "i" -> "I"
      [] c = "t" -> "T"
      [] c = "e" -> "E"
      [] c = "x" -> "X"

\* quit, exit or q, each letter in either case
ExitInAnyCase(w) ==
    \E e \in {<<"q", "u", "i", "t">>, <<"e", "x", "i", "t">>, <<"q">>} :
        /\ Len(w) = Len(e)
        /\ \A i \in 1..Len(e) : w[i] \in {e[i], UpperChar(e[i])}

\* C6: an exit word read at input(), in any letter case, closes the loop at
\* once: no model call, the thread unchanged, no turn started; and once the
\* loop is closed nothing more happens.
C6_ExitCloses ==
    [][ /\ (pc = "idle" /\ ExitInAnyCase(user_input')) =>
              /\ pc' = "closed"
              /\ history' = history
              /\ modelCalls' = modelCalls
              /\ sent' = sent
              /\ turns' = turns
        /\ pc # "closed" ]_vars

\* an upper-case exit word closed the loop after a turn had run
C6_Witness ==
    /\ pc = "closed"
    /\ user_input = <<"E", "X", "I", "T">>
    /\ result = "answered"
    /\ Len(history) > 0

CloserAt(s, i) == MatchesAt(s, Closer, i)

\* r is s without its leading and trailing whitespace
IsTrimOf(r, s) ==
    \E lo \in 1..(Len(s) + 1) : \E hi \in 0..Len(s) :
        /\ r = SubSeq(s, lo, hi)
        /\ \A i \in 1..(lo - 1) : s[i] \in Whitespace
        /\ \A i \in (hi + 1)..Len(s) : s[i] \in Whitespace
        /\ (r # <<>> => r[1] \notin Whitespace /\ r[Len(r)] \notin Whitespace)

\* C7: the extracted answer is the text strictly after the first closing tag,
\* trimmed of surrounding whitespace; a text with no closing tag is returned
\* whole and untrimmed.
C7_AfterFirstCloser ==
    phase \in {"once", "twice"} =>
        IF \A i \in 1..Len(text) : ~CloserAt(text, i)
        THEN out1 = text
        ELSE \E i \in 1..Len(text) :
                /\ CloserAt(text, i)
                /\ \A j \in 1..(i - 1) : ~CloserAt(text, j)
                /\ IsTrimOf(out1, SubSeq(text, i + Len(Closer), Len(text)))

\* a text with two closing tags, whitespace after the first: the answer starts
\* after the first tag and was trimmed
C7_Witness ==
    /\ phase = "once"
    /\ \E i \in 1..Len(text) : \E j \in (i + 1)..Len(text) :
          /\ CloserAt(text, i)
          /\ CloserAt(text, j)
          /\ text[i + Len(Closer)] \in Whitespace
    /\ Contains(out1, Closer)

\* C8: extracting from an extracted answer gives that answer again.
C8_Idempotent ==
    phase = "twice" => out2 = out1

\* the positions in h of the tool messages answering call id
Answers(h, id) == {x \in 1..Len(h) : h[x].role = "tool" /\ h[x].tool_call_id = id}

ResultsInRequestOrder ==
    \A j \in Requests(history) :
       \A a \in 1..Len(history[j].tool_calls) : \A b \in 1..Len(history[j].tool_calls) :
          a < b =>
             \A x \in Answers(history, history[j].tool_calls[a].id) :
                \A y \in Answers(history, history[j].tool_calls[b].id) : x < y

Fails(call) == call.name = "calculate_total_cost" /\ "num_days" \notin DOMAIN call.args

C11_StoppedEarlyShown ==
    (pc = "idle" /\ result = "answered") =>
        LET last == history[Len(history)]
        IN  /\ last.role = "assistant"
            /\ last.stop \in {"end_turn", "stop_sequence"}
            /\ printed = [kind |-> "assistant",
                          text |-> extract_after_thinking(last.content[1].text)]

\* C12: a turn is only ever started on input that is non-empty and not an
\* exit word: the input of a running turn is neither, and no user message in
\* the thread is empty (empty input adds nothing and calls no model).
C12_TurnOnlyOnNonEmptyInput ==
    /\ InTurn => (user_input # <<>> /\ ~ExitInAnyCase(user_input))
    /\ \A i \in 1..Len(history) :
          history[i].role = "user" => history[i].content # <<TextBlock(<<>>)>>

\* C13: input is read, and a turn started, only while the loop waits at
\* input(): never inside a running turn, and a further turn only after the
\* one before it has ended without an exception; so one turn at most is running.
C13_InputOnlyAtIdle ==
    [][ /\ (user_input' # user_input \/ turns' # turns) => pc = "idle"
        /\ InTurn => (turns' = turns /\ user_input' = user_input)
        /\ turns' # turns =>
              /\ turns' = turns + 1
              /\ steps' = 0
              /\ (turns = 0 \/ result \in {"answered", "need_more_steps"}) ]_vars

\* a second turn is running, started after the first had ended
C13_Witness ==
    /\ turns = 2
    /\ pc = "tools"
    /\ user_input = <<"h", "i">>

\* the synthetic assistant message that opens the thinking block
OpenerMessage ==
    [role |-> "assistant", content |-> <<[type |-> "text", text |-> Opener]>>,
     tool_calls |-> <<>>, stop |-> "none", tool_call_id |-> <<>>]

UserMessage(s) ==
    [role |-> "user", content |-> <<[type |-> "text", text |-> s]>>,
     tool_calls |-> <<>>, stop |-> "none", tool_call_id |-> <<>>]

\* C14 as stated: every model call is handed a thread whose last message is
\* the synthetic opener, so every response is generated inside an open
\* thinking block.
C14_EveryCallPrimed ==
    modelCalls > 0 => sent[Len(sent)] = OpenerMessage

\* C14, amended: starting a turn adds the user's message and, right after it,
\* the synthetic opener, before any model call of the turn; the first model
\* call of every turn is handed a thread ending with these two. Later model
\* calls of the turn follow tool messages and are not primed.
C14_FirstCallPrimed ==
    [][ /\ turns' # turns =>
              /\ history' = history \o <<UserMessage(user_input'), OpenerMessage>>
              /\ modelCalls' = modelCalls
        /\ (modelCalls' # modelCalls /\ steps = 0) =>
              /\ Len(sent') >= 2
              /\ sent'[Len(sent')] = OpenerMessage
              /\ sent'[Len(sent') - 1] = UserMessage(user_input)
        /\ (modelCalls' # modelCalls /\ steps > 0) =>
              sent'[Len(sent')].role = "tool" ]_vars

\* the second turn's first model call was made on a thread ending with the opener
C14_Witness ==
    /\ turns = 2
    /\ steps = 1
    /\ Len(sent) > 2
    /\ sent[Len(sent)] = OpenerMessage

====
